---------------------------- MODULE Spec2Model ----------------------------
(***************************************************************************)
(* Extendible hash table of src/hashing.cpp: DataBucket and                *)
(* ExtendibleHashMap (add, remove, extend, splitImage, getImageIndex,      *)
(* reduceDirectory).                                                       *)
(*                                                                         *)
(* The heap is modelled explicitly: a bucket pointer is an address, the    *)
(* directory `buckets` holds addresses, `heap` holds what lies at each     *)
(* address and `live` is the set of addresses currently allocated.  An     *)
(* address that the directory still holds after `delete` is a dangling     *)
(* pointer.  Every access the C++ standard leaves undefined (a dangling    *)
(* pointer, an index outside the directory, a shift by -1) is a choice     *)
(* between the outcomes a build produces: the process dies, or the access  *)
(* goes through on whatever lies there.                                    *)
(*                                                                         *)
(* `int` is IntBits wide.  The program's int has 32 bits; the model keeps  *)
(* the same arithmetic (two's complement, 1 << (IntBits-1) is negative,    *)
(* % truncates towards zero) at a width TLC can exhaust.                   *)
(***************************************************************************)
EXTENDS Integers, FiniteSets, Sequences, TLC

\* ------------------------------------------------------------------ bounds
\* width of int in bits (32 in the program, scaled down)
IntBits == 6
\* keys are drawn from -NegKeys .. MaxKey
MaxKey == 5
NegKeys == 1
\* insert-only histories draw their keys from 0 .. MaxInsertKey
MaxInsertKey == 8
\* the single calls examined from each reachable state take their key from
\* -MaxNegCallKey .. MaxInsertKey
MaxNegCallKey == 2
\* bucket capacities the constructor is called with: 1 .. MaxCapacity
MaxCapacity == 2
\* initial global depths the two-argument constructor is called with
MaxInitDepth == 0
\* nesting depth of add -> splitImage -> add the model follows
MaxNesting == 12
\* calls in which an undefined access goes through instead of faulting; once
\* a run has had this many, a further undefined access only faults
MaxUndefinedCalls == 1
\* a freed bucket the allocator wrote over reads a local depth in 0 .. MaxScribble
MaxScribble == 2

ScribbledDepths == 0 .. MaxScribble

Keys == (0 - NegKeys) .. MaxKey
InsertKeys == 0 .. MaxInsertKey
CallKeys == (0 - MaxNegCallKey) .. MaxInsertKey
Capacities == 1 .. MaxCapacity

\* ----------------------------------------------------------- int arithmetic
MinInt == 0 - 2 ^ (IntBits - 1)
MaxInt == 2 ^ (IntBits - 1) - 1

\* an integer result as an int holds it
Wrap(x) == ((x - MinInt) % (2 ^ IntBits)) + MinInt

\* a % b of C++ for b > 0: the result has the sign of a
Rem(a, b) == IF a >= 0 THEN a % b ELSE 0 - ((0 - a) % b)

\* 1 << n.  In range it is a power of two (1 << (IntBits-1) is MinInt).  A
\* negative or too large n is undefined: the hardware either masks the count
\* (1 << -1 is then 1 << (IntBits-1)) or shifts the bit out.
Shl(n) == IF n >= 0 /\ n < IntBits THEN {Wrap(2 ^ n)} ELSE {0, MinInt}

\* 1 << n where the code has n in 0 .. IntBits-2
Pow2(n) == 2 ^ n

Min(S) == CHOOSE x \in S : \A y \in S : x <= y
Max(S) == CHOOSE x \in S : \A y \in S : x >= y

\* --------------------------------------------------------------- DataBucket
\* new DataBucket(_size, _localDepth)
DataBucket(_size, _localDepth) ==
    [size |-> _size, localDepth |-> _localDepth, data |-> {}]

\* a comparison that is strict where line 45 and line 290 have <=
SizeLess(n, limit) == limit < 0 \/ n < limit

\* the comparison data.size() <= size, size_t against int: a negative int
\* converts to a huge unsigned value
SizeLeq(n, limit) == limit < 0 \/ n <= limit

\* DataBucket::insert: <<bucket afterwards, return value>>
DataBucketInsert(b, _data) ==
    IF _data \in b.data
    THEN [bucket |-> b, ret |-> 1]
    ELSE LET nb == [b EXCEPT !.data = b.data \cup {_data}]
         IN  [bucket |-> nb,
              ret |-> IF SizeLeq(Cardinality(nb.data), nb.size) THEN 0 ELSE 2]

\* DataBucket::erase
DataBucketErase(b, _key) == [b EXCEPT !.data = b.data \ {_key}]


\* ---------------------------------------------------------------- the table
\* A table in the middle of an operation: the fields of ExtendibleHashMap, the
\* heap, and whether the process has died (fault).
NoFault == "none"
\* what a read outside the directory yields when it faults
Segv == 0 - 1

Fail(w, why) == [w EXCEPT !.fault = why]

\* The field trail of a table is a record of the call in progress, kept for
\* the properties of single steps: one event per extend, split, merge and
\* shrink the call has made, with the table before and after the step.
Bare(w) == [w EXCEPT !.trail = <<>>]

\* the table after a step of the given kind that led from `before` to w
Logged(w, kind, before, at) ==
    [w EXCEPT !.trail = Append(@, [kind |-> kind, before |-> Bare(before),
                                   after |-> Bare(w), at |-> at])]

\* buckets.size()
DirSize(w) == Cardinality(DOMAIN w.buckets)

\* an undefined access: the process dies of it, or the access goes through
\* and the call goes on
MayGoThrough(w) == w.tainted \/ w.undefinedCalls < MaxUndefinedCalls
Undefined(w, why) ==
    {Fail(w, why)} \cup
        (IF MayGoThrough(w) THEN {[w EXCEPT !.tainted = TRUE]} ELSE {})

\* p->... : a pointer to a live bucket is used as it is; a dangling pointer
\* is a use after free, which faults (a checking allocator, a sanitizer) or
\* goes through on the memory the freed bucket left behind
Deref(w, p) == IF p \in w.live THEN {w} ELSE Undefined(w, "use_after_free")

\* buckets[i] as a read: inside the directory it is the slot.  The word at
\* index -1 is the allocator's header of the array, which is no address, so
\* the dereference faults.  Further below (the other indices a negative key
\* gives) it is a fault or whatever word lies there, which may be the address
\* of any bucket; MinInt slots below, the memory is not mapped.
ReadSlot(w, i) ==
    IF i \in DOMAIN w.buckets THEN {w.buckets[i]}
    ELSE IF i < 0 - 1 /\ i > 0 - DirSize(w) /\ MayGoThrough(w)
    THEN {Segv} \cup DOMAIN w.heap
    ELSE {Segv}

\* the table after buckets[i] was read and did not fault
AfterRead(w, i) ==
    IF i \in DOMAIN w.buckets THEN w ELSE [w EXCEPT !.tainted = TRUE]

\* _getBucketIndex(_key, _globalDepth)
getBucketIndex(_key, _globalDepth) == Rem(_key, Pow2(_globalDepth))

\* a doubling that fills the new half from slot 0 instead of mirroring
ExtendDirectoryUnmirrored(dir, oldDepth, newSize) ==
    [i \in 0 .. newSize - 1 |-> IF i < Pow2(oldDepth) THEN dir[i] ELSE dir[0]]

\* the loop of extend(): the directory after doubling
ExtendDirectory(dir, oldDepth, newSize) ==
    [i \in 0 .. newSize - 1 |->
        IF i < Pow2(oldDepth) THEN dir[i] ELSE dir[getBucketIndex(i, oldDepth)]]

\* extend(): resize(1 << globalDepth) throws std::length_error when the int
\* 1 << globalDepth has overflowed to a negative value
extend(w) ==
    LET oldDepth == w.globalDepth
        newSize  == Wrap(2 ^ (oldDepth + 1))
    IN  IF newSize < 0
        THEN {Fail(w, "length_error")}
        ELSE {Logged([w EXCEPT !.globalDepth = oldDepth + 1,
                               !.buckets = ExtendDirectory(w.buckets, oldDepth,
                                                           newSize)],
                      "extend", w, <<>>)}

\* the address operator new returns: one never used, or one freed before
\* (which dangling slots of the directory may still hold)
NewAddresses(w) ==
    {IF DOMAIN w.heap = {} THEN 0 ELSE Max(DOMAIN w.heap) + 1}
        \cup (DOMAIN w.heap \ w.live)

\* splitImage: newBucketIndex
NewBucketIndex(splitIndex, halfSize, size) ==
    Wrap(IF splitIndex < halfSize THEN size - (halfSize - splitIndex)
                                   ELSE splitIndex)

\* splitImage: dataCopy
DataCopy(splitIndex, halfSize) ==
    Wrap(IF splitIndex < halfSize THEN splitIndex ELSE splitIndex - halfSize)

\* splitImage, lines 148-154: the new bucket at address a, the bucket at
\* dataCopy emptied and one deeper; bucketData is returned beside the table
SplitBuckets(w, a, newBucketIndex, dataCopy) ==
    LET w1 == [w EXCEPT
                 !.heap = (a :> DataBucket(w.bucketSize, w.globalDepth)) @@ w.heap,
                 !.live = @ \cup {a},
                 !.buckets[newBucketIndex] = a]
        d  == w1.buckets[dataCopy]
    IN  {IF v.fault # NoFault
         THEN [table |-> v, bucketData |-> {}]
         ELSE [table |-> Logged([v EXCEPT !.heap[d].data = {},
                                          !.heap[d].localDepth = Wrap(@ + 1)],
                                 "split", w, <<newBucketIndex, dataCopy>>),
               bucketData |-> v.heap[d].data]
         : v \in Deref(w1, d)}

RECURSIVE add(_, _, _), splitImage(_, _, _), addEach(_, _, _)

\* add(key) at nesting depth n: the set of tables it can end in
add(w, key, n) ==
    IF w.fault # NoFault THEN {w}
    ELSE IF n > MaxNesting THEN {Fail(w, "nesting")}
    ELSE
    LET bucketIndex == getBucketIndex(key, w.globalDepth)
        Into(v, bucket) ==
            LET r  == DataBucketInsert(v.heap[bucket], key)
                v1 == [v EXCEPT !.heap[bucket] = r.bucket]
            IN  IF r.ret # 2 THEN {v1}
                ELSE IF bucketIndex \notin DOMAIN v1.buckets
                THEN {Fail(v1, "out_of_bounds")}
                ELSE UNION {splitImage(x, bucketIndex, n) :
                        x \in IF v1.heap[bucket].localDepth = v1.globalDepth
                              THEN extend(v1) ELSE {v1}}
    IN  UNION {IF bucket = Segv THEN {Fail(w, "out_of_bounds")}
               ELSE UNION {IF v.fault # NoFault THEN {v} ELSE Into(v, bucket)
                           : v \in Deref(AfterRead(w, bucketIndex), bucket)}
               : bucket \in ReadSlot(w, bucketIndex)}

\* splitImage(splitIndex)
splitImage(w, splitIndex, n) ==
    IF w.fault # NoFault THEN {w}
    ELSE UNION {
        LET newBucketIndex == NewBucketIndex(splitIndex, halfSize, DirSize(w))
            dataCopy       == DataCopy(splitIndex, halfSize)
        IN  IF newBucketIndex \notin DOMAIN w.buckets
               \/ dataCopy \notin DOMAIN w.buckets
            THEN {Fail(w, "out_of_bounds")}
            ELSE UNION {addEach({s.table}, s.bucketData, n + 1) :
                        s \in UNION {SplitBuckets(w, a, newBucketIndex, dataCopy)
                                     : a \in NewAddresses(w)}}
        : halfSize \in Shl(w.globalDepth - 1)}

\* the loop of splitImage: add(element) for the elements in ascending order
addEach(ws, elements, n) ==
    IF elements = {} THEN ws
    ELSE LET element == Min(elements)
         IN  addEach(UNION {add(v, element, n) : v \in ws},
                     elements \ {element}, n)

\* getImageIndex for one value of oldSize = 1 << (globalDepth - 1)
ImageIndex(splitIndex, oldSize, size) ==
    Wrap(IF splitIndex < oldSize THEN size - (oldSize - splitIndex)
                                  ELSE splitIndex - oldSize)

\* getImageIndex(splitIndex): one index, or the outcomes of 1 << -1
getImageIndex(w, splitIndex) ==
    {ImageIndex(splitIndex, oldSize, DirSize(w)) :
        oldSize \in Shl(w.globalDepth - 1)}

\* a merge condition that asks for room in a whole bucket, not in half of one
NotOverfull(n, bucketSize) == SizeLeq(n, bucketSize)

\* remove, line 290: data.size() <= bucketSize / 2 for a bucket of n keys
HalfEmpty(n, bucketSize) == SizeLeq(n, bucketSize \div 2)

\* a halving that goes on to halve a second time
reduceDirectoryRepeated(w) ==
    LET depth == IF w.globalDepth >= 2 THEN w.globalDepth - 2 ELSE 0
    IN  {Logged([w EXCEPT !.globalDepth = depth,
                          !.buckets = [i \in 0 .. Pow2(depth) - 1 |-> w.buckets[i]]],
                "shrink", w, <<>>)}

\* reduceDirectory()
reduceDirectory(w) ==
    {IF newSize < 0
     THEN Fail(w, "length_error")
     ELSE Logged([w EXCEPT !.globalDepth = w.globalDepth - 1,
                           !.buckets = [i \in 0 .. newSize - 1 |-> w.buckets[i]]],
                 "shrink", w, <<>>)
     : newSize \in Shl(w.globalDepth - 1)}

\* remove, lines 317-324: the slots the scan reads (it breaks at the first
\* local depth that differs from slot 0's)
ScannedSlots(w) ==
    LET differ == {i \in DOMAIN w.buckets :
                      i >= 1 /\ w.heap[w.buckets[i]].localDepth
                                    # w.heap[w.buckets[0]].localDepth}
    IN  IF differ = {} THEN DOMAIN w.buckets ELSE 0 .. Min(differ)

\* remove, lines 317-324: no slot's bucket has a local depth other than the
\* one of slot 0's bucket
areLocalDepthsEqual(w) ==
    \A i \in DOMAIN w.buckets :
        w.heap[w.buckets[i]].localDepth = w.heap[w.buckets[0]].localDepth

\* remove, lines 315-331: the scan of the local depths and the halving
ShrinkIfUniform(w) ==
    IF w.fault # NoFault \/ DOMAIN w.buckets = {} THEN {w}
    ELSE
    LET scanned == IF \A i \in ScannedSlots(w) : w.buckets[i] \in w.live
                   THEN {w} ELSE Undefined(w, "use_after_free")
    IN  UNION {IF v.fault # NoFault THEN {v}
               ELSE IF areLocalDepthsEqual(v)
                       /\ v.globalDepth - 1 = v.heap[v.buckets[0]].localDepth
               THEN reduceDirectory(v)
               ELSE {v}
               : v \in scanned}

\* what a freed bucket's first words (size, localDepth) read as afterwards:
\* what they held, or what the allocator wrote over them (a free-list link)
Scribbles(b) ==
    {b} \cup {[b EXCEPT !.size = MaxInt, !.localDepth = d] : d \in ScribbledDepths}

\* delete p: the destructor clears the set and the address is freed; a second
\* delete of the same address is caught by the allocator or goes through
Delete(w, p) ==
    LET Freed(x) == {[x EXCEPT !.heap[p] = b, !.live = @ \ {p}]
                     : b \in Scribbles([x.heap[p] EXCEPT !.data = {}])}
    IN  IF p \in w.live THEN Freed(w)
        ELSE UNION {IF x.fault # NoFault THEN {x} ELSE Freed(x)
                    : x \in Undefined(w, "double_free")}

\* remove, lines 294-312: the merge of the buckets s (read at the smaller
\* index) and v (read at the larger index hi)
Merge(w, s, v, hi) ==
    LET moved == [w EXCEPT !.heap[s].data = @ \cup w.heap[v].data]
    IN  UNION {
          IF d.fault # NoFault THEN {d}
          ELSE IF hi \notin DOMAIN d.buckets THEN {Fail(d, "out_of_bounds")}
          ELSE LET pointed == [d EXCEPT !.buckets[hi] = s]
               IN  {IF x.fault # NoFault THEN x
                    ELSE Logged([x EXCEPT !.heap[s].localDepth = Wrap(@ - 1)],
                                "merge", w, <<s, v, hi>>)
                    : x \in Deref(pointed, s)}
          : d \in Delete(moved, v)}

\* remove(key): the set of tables it can end in
remove(w, key) ==
    LET bucketIndex == getBucketIndex(key, w.globalDepth)
        After(v, b, image) ==
            LET v1 == [v EXCEPT !.heap[b] = DataBucketErase(@, key)]
            IN  IF ~(image # bucketIndex
                     /\ HalfEmpty(Cardinality(v1.heap[b].data), v1.bucketSize))
                THEN ShrinkIfUniform(v1)
                ELSE UNION {
                  IF m = Segv THEN {Fail(v1, "out_of_bounds")}
                  ELSE UNION {
                    IF v2.fault # NoFault THEN {v2}
                    ELSE IF ~HalfEmpty(Cardinality(v2.heap[m].data), v2.bucketSize)
                    THEN ShrinkIfUniform(v2)
                    ELSE UNION {ShrinkIfUniform(x) :
                            x \in IF bucketIndex > image
                                  THEN Merge(v2, m, b, bucketIndex)
                                  ELSE Merge(v2, b, m, image)}
                    : v2 \in Deref(AfterRead(v1, image), m)}
                  : m \in ReadSlot(v1, image)}
    IN  UNION {
          UNION {IF b = Segv THEN {Fail(w, "out_of_bounds")}
                 ELSE UNION {IF v.fault # NoFault THEN {v} ELSE After(v, b, image)
                             : v \in Deref(AfterRead(w, bucketIndex), b)}
                 : b \in ReadSlot(w, bucketIndex)}
          : image \in getImageIndex(w, bucketIndex)}

\* ExtendibleHashMap(_globalDepth, _size); ExtendibleHashMap(_size) is the
\* case _globalDepth = 0
Constructor(_globalDepth, _size) ==
    [globalDepth |-> _globalDepth,
     bucketSize  |-> _size,
     buckets     |-> [i \in 0 .. Pow2(_globalDepth) - 1 |-> i],
     heap        |-> [i \in 0 .. Pow2(_globalDepth) - 1 |->
                         DataBucket(_size, _globalDepth)],
     live        |-> 0 .. Pow2(_globalDepth) - 1,
     fault       |-> NoFault,
     undefinedCalls |-> 0,
     tainted     |-> FALSE,
     trail       |-> <<>>]

\* ~ExtendibleHashMap(), the loop from slot i on: delete bucket for every
\* slot, then buckets.clear().  released is the addresses passed to delete so
\* far.  What the freed words of a bucket read as is of no account here: the
\* destructor reads no field of a bucket.
RECURSIVE destructor(_, _, _)
destructor(w, i, released) ==
    IF i \notin DOMAIN w.buckets
    THEN {[table |-> [w EXCEPT !.buckets = <<>>], released |-> released]}
    ELSE LET bucket == w.buckets[i]
             now    == Append(released, bucket)
             cleared == [w.heap[bucket] EXCEPT !.data = {}]
             deleted == {IF x.fault # NoFault THEN x
                         ELSE [x EXCEPT !.heap[bucket] = cleared]
                         : x \in Delete(w, bucket)}
         IN  UNION {IF x.fault # NoFault
                    THEN {[table |-> x, released |-> now]}
                    ELSE destructor(x, i + 1, now)
                    : x \in deleted}

\* Addresses carry no meaning beyond identity: the buckets the directory
\* holds are renamed in the order of their first slot, and what no slot holds
\* (freed memory, and buckets no pointer reaches any more) is dropped.
Canonical(w) ==
    LET held     == {w.buckets[i] : i \in DOMAIN w.buckets}
        first(p) == Min({i \in DOMAIN w.buckets : w.buckets[i] = p})
        rank(p)  == Cardinality({q \in held : first(q) < first(p)})
        at(r)    == CHOOSE p \in held : rank(p) = r
    IN  [w EXCEPT !.buckets = [i \in DOMAIN w.buckets |-> rank(w.buckets[i])],
                  !.heap    = [r \in 0 .. Cardinality(held) - 1 |-> w.heap[at(r)]],
                  !.live    = {rank(p) : p \in held \cap w.live}]

\* ---------------------------------------------------------- the state machine
VARIABLES
    bucketSize,     \* ExtendibleHashMap::bucketSize
    globalDepth,    \* ExtendibleHashMap::globalDepth
    buckets,        \* ExtendibleHashMap::buckets: slot -> address
    heap,           \* address -> the DataBucket stored there
    live,           \* the addresses allocated and not deleted
    fault,          \* "none", or how the process died
    undefinedCalls, \* the calls so far in which an undefined access went through
    pc,             \* main: "loop" while it reads commands, "done" after delete mp
    released,       \* the addresses ~ExtendibleHashMap has passed to delete
    script          \* how far the calls so far follow add(1),...,add(5),
                    \* remove(3) on a table built with (0, 2); -1 once they do not

vars == <<bucketSize, globalDepth, buckets, heap, live, fault, undefinedCalls,
          pc, released, script>>

\* the table the variables hold
Table ==
    [globalDepth |-> globalDepth, bucketSize |-> bucketSize, buckets |-> buckets,
     heap |-> heap, live |-> live, fault |-> fault,
     undefinedCalls |-> undefinedCalls, tainted |-> FALSE, trail |-> <<>>]

\* the table a call that returned with r leaves to the next call
Left(r) ==
    [Canonical(r) EXCEPT !.undefinedCalls = @ + (IF r.tainted THEN 1 ELSE 0),
                         !.tainted = FALSE, !.trail = <<>>]

\* the table after a call that ended in r: a call that died leaves the table
\* as it was and records the fault
Becomes(r) ==
    IF r.fault # NoFault
    THEN /\ fault' = r.fault
         /\ UNCHANGED <<bucketSize, globalDepth, buckets, heap, live,
                        undefinedCalls>>
    ELSE LET c == Left(r)
         IN  /\ globalDepth' = c.globalDepth
             /\ buckets' = c.buckets
             /\ heap' = c.heap
             /\ live' = c.live
             /\ undefinedCalls' = c.undefinedCalls
             /\ UNCHANGED <<bucketSize, fault>>

\* main, line 361 (new ExtendibleHashMap(0, 2)) and the other arguments the
\* constructors take
Init ==
    \E _size \in Capacities, _globalDepth \in 0 .. MaxInitDepth :
        LET t == Constructor(_globalDepth, _size)
        IN  /\ bucketSize = t.bucketSize
            /\ globalDepth = t.globalDepth
            /\ buckets = t.buckets
            /\ heap = t.heap
            /\ live = t.live
            /\ fault = t.fault
            /\ undefinedCalls = t.undefinedCalls
            /\ pc = "loop"
            /\ released = <<>>
            /\ script = IF _size = 2 /\ _globalDepth = 0 THEN 0 ELSE 0 - 1

\* the value add(key) returns: bucketIndex, computed on entry
addReturn(w, key) == getBucketIndex(key, w.globalDepth)

\* main, case 1: mp->add(x)
Add(key) ==
    /\ pc = "loop"
    /\ fault = NoFault
    /\ UNCHANGED <<pc, released>>
    /\ \E r \in add(Table, key, 0) : Becomes(r)
    /\ script' = IF script >= 0 /\ script < 5 /\ key = script + 1 /\ fault' = NoFault
                 THEN script + 1 ELSE 0 - 1

\* main, case 2: mp->remove(x)
Remove(key) ==
    /\ pc = "loop"
    /\ fault = NoFault
    /\ UNCHANGED <<pc, released>>
    /\ \E r \in remove(Table, key) : Becomes(r)
    /\ script' = IF script = 5 /\ key = 3 /\ fault' = NoFault THEN 6 ELSE 0 - 1

\* main, case 0 and line 395: delete mp
Teardown ==
    /\ pc = "loop"
    /\ fault = NoFault
    /\ pc' = "done"
    /\ \E r \in destructor(Table, 0, <<>>) :
          /\ released' = r.released
          /\ Becomes(r.table)
    /\ script' = 0 - 1

Next ==
    \/ \E key \in Keys : Add(key)
    \/ \E key \in Keys : Remove(key)
    \/ Teardown

Spec == Init /\ [][Next]_vars

\* insert-only histories of non-negative keys
NextInserts == \E key \in InsertKeys : Add(key)

SpecInserts == Init /\ [][NextInserts]_vars

\* ----------------------------------------------------------------- the claims
\* the buckets the directory references
Referenced == {buckets[i] : i \in DOMAIN buckets}

\* slotIndex(key, globalDepth) of the specification: key mod 2^globalDepth
SlotIndex(key) == key % (2 ^ globalDepth)

\* the keys of the bucket slot i references
KeysAt(i) == heap[buckets[i]].data

\* the slots that reference bucket p
SlotsOf(p) == {i \in DOMAIN buckets : buckets[i] = p}

\* no call so far has relied on an undefined access: none went through, and
\* no slot holds the address of a deleted bucket
NoUndefinedBehaviour == undefinedCalls = 0 /\ Referenced \subseteq live

\* the model's nesting bound is never what ends a call
NestingBoundNotReached == fault # "nesting"

\* C1: after completed add and remove calls, every key stored in a bucket the
\* directory references is stored in the bucket at slot key mod 2^globalDepth.
AddressingInvariant ==
    fault = NoFault =>
        \A i \in DOMAIN buckets : \A k \in KeysAt(i) :
            /\ SlotIndex(k) \in DOMAIN buckets
            /\ k \in KeysAt(SlotIndex(k))

\* C2: after completed add and remove calls, every bucket the directory
\* references is referenced by exactly 2^(globalDepth - localDepth) slots.
ReferenceCountInvariant ==
    fault = NoFault =>
        \A p \in Referenced :
            /\ heap[p].localDepth \in 0 .. globalDepth
            /\ Cardinality(SlotsOf(p)) = 2 ^ (globalDepth - heap[p].localDepth)

\* C3: add(key) finishes; in particular in an insert-only history of
\* non-negative keys no add call ends other than by returning.
AddFinishes == fault = NoFault

\* C4: after completed add and remove calls, no bucket the directory
\* references holds more than bucketSize keys.
CapacityInvariant ==
    fault = NoFault =>
        \A p \in Referenced : Cardinality(heap[p].data) <= bucketSize

\* C10: every referenced bucket has 0 <= localDepth <= globalDepth, and
\* globalDepth >= 0.
DepthBounds ==
    fault = NoFault =>
        /\ globalDepth >= 0
        /\ \A p \in Referenced : heap[p].localDepth \in 0 .. globalDepth

\* what the claims compare of a table: globalDepth, the slot-to-bucket
\* mapping, and every bucket's local depth and key set
Structure(w) ==
    <<w.globalDepth, w.buckets,
      [p \in DOMAIN w.heap |-> <<w.heap[p].localDepth, w.heap[p].data>>]>>

\* key is stored in no bucket the directory references
Absent(key) == \A i \in DOMAIN buckets : key \notin KeysAt(i)

\* C5: in every reachable state, a second add(k) right after an add(k) that
\* returned is a Duplicate: it returns and leaves globalDepth, the directory
\* and every bucket as the first call left them.
AddIsIdempotent ==
    fault = NoFault =>
        \A key \in Keys : \A once \in add(Table, key, 0) :
            once.fault = NoFault =>
                \A twice \in add(Left(once), key, 0) :
                    /\ twice.fault = NoFault
                    /\ Structure(Canonical(twice)) = Structure(Left(once))

\* C6: remove(k) of a key stored nowhere leaves the slot count, globalDepth
\* and the keys behind every slot unchanged.
RemoveAbsentChangesNothing ==
    [][\A key \in Keys :
          (Remove(key) /\ Absent(key) /\ fault' = NoFault) =>
              /\ globalDepth' = globalDepth
              /\ DOMAIN buckets' = DOMAIN buckets
              /\ \A i \in DOMAIN buckets : KeysAt(i)' = KeysAt(i)]_vars

\* C7: add(k) returns the slot k resides at when the call has completed,
\* k mod 2^globalDepth with the globalDepth then in force.
AddReturnsFinalSlot ==
    [][\A key \in Keys :
          (Add(key) /\ fault' = NoFault) =>
              addReturn(Table, key) = SlotIndex(key)']_vars

\* C8: capacity 2, globalDepth 0, add(1), ..., add(5): globalDepth is 2, there
\* are 4 slots, slots 0 and 2 reference one bucket {2,4} of local depth 1,
\* slot 1 a bucket {1,5} of local depth 2, slot 3 a bucket {3} of local depth 2.
ScenarioAfterFiveAdds ==
    script = 5 =>
        /\ globalDepth = 2
        /\ DOMAIN buckets = 0 .. 3
        /\ buckets[0] = buckets[2]
        /\ Cardinality(Referenced) = 3
        /\ KeysAt(0) = {2, 4} /\ heap[buckets[0]].localDepth = 1
        /\ KeysAt(1) = {1, 5} /\ heap[buckets[1]].localDepth = 2
        /\ KeysAt(3) = {3}    /\ heap[buckets[3]].localDepth = 2

\* C8, witness: the five adds have been made and ended in a table of depth 2
FiveAddsDone == script = 5 /\ bucketSize = 2 /\ globalDepth = 2 /\ fault = NoFault

\* C9: after remove(3) in that state globalDepth is still 2, there are still 3
\* distinct buckets, of local depths 1, 2, 2, and slot 3 references an empty
\* bucket that is not slot 1's, which still holds {1,5}.
ScenarioAfterRemoveThree ==
    script = 6 =>
        /\ globalDepth = 2
        /\ DOMAIN buckets = 0 .. 3
        /\ Cardinality(Referenced) = 3
        /\ buckets[0] = buckets[2]
        /\ heap[buckets[0]].localDepth = 1
        /\ heap[buckets[1]].localDepth = 2
        /\ heap[buckets[3]].localDepth = 2
        /\ KeysAt(3) = {}
        /\ buckets[3] # buckets[1]
        /\ KeysAt(1) = {1, 5}
        /\ KeysAt(0) = {2, 4}

\* C9, witness: remove(3) has been made after the five adds, and key 3 is gone
RemoveThreeDone == script = 6 /\ fault = NoFault /\ Absent(3)

\* C11: no key is held by two distinct buckets the directory references.
KeyUniqueness ==
    fault = NoFault =>
        \A p, q \in Referenced : p # q => heap[p].data \cap heap[q].data = {}

\* C12: destroying the table releases every bucket the directory references
\* once, and none twice, and the process does not die of it.
TeardownReleasesOnce ==
    [][Teardown =>
          /\ fault' = NoFault
          /\ {released'[i] : i \in DOMAIN released'} = Referenced
          /\ \A i, j \in DOMAIN released' :
                released'[i] = released'[j] => i = j]_vars

\* the keys a lookup finds: k is found when the bucket at slot
\* k mod 2^globalDepth holds k
Found ==
    {k \in Keys \cup InsertKeys : SlotIndex(k) \in DOMAIN buckets /\ k \in KeysAt(SlotIndex(k))}

\* C13: the keys found follow the mathematical set: an add(k) that returned
\* adds k to them and nothing else, a remove(k) that returned takes k from
\* them and nothing else; no other key is lost or comes back.
NoKeyLostOrResurrected ==
    [][\A key \in Keys \cup InsertKeys :
          /\ (Add(key) /\ fault' = NoFault) => Found' = Found \cup {key}
          /\ (Remove(key) /\ fault' = NoFault) => Found' = Found \ {key}]_vars

\* the steps of the given kind that some add(key) or remove(key) called in
\* the current state makes
Range(f) == {f[i] : i \in DOMAIN f}
CallsInProgress ==
    IF pc = "loop" /\ fault = NoFault
    THEN UNION {add(Table, key, 0) \cup remove(Table, key) : key \in CallKeys}
    ELSE {}
Steps(kind) == {e \in UNION {Range(r.trail) : r \in CallsInProgress} : e.kind = kind}

\* the buckets a table's directory references
Held(w) == {w.buckets[i] : i \in DOMAIN w.buckets}

\* C14: when a split step has finished (line 154), the bucket that was split,
\* of local depth d before, and the bucket created both have local depth d + 1.
SplitYieldsTwoDeeper ==
    \A e \in Steps("split") :
        LET newBucketIndex == e.at[1]
            dataCopy       == e.at[2]
            d == e.before.heap[e.before.buckets[dataCopy]].localDepth
        IN  /\ e.after.heap[e.after.buckets[dataCopy]].localDepth = d + 1
            /\ e.after.heap[e.after.buckets[newBucketIndex]].localDepth = d + 1

\* C15: the slot splitImage assigns the new bucket to referenced, before, the
\* bucket being drained, and the bucket it referenced is still referenced
\* by a slot afterwards.
SplitOrphansNoBucket ==
    \A e \in Steps("split") :
        LET replaced == e.before.buckets[e.at[1]]
            drained  == e.before.buckets[e.at[2]]
        IN  /\ replaced = drained
            /\ replaced \in Held(e.after)

\* C16: a merge joins two different buckets, the released one is referenced
\* by no slot afterwards, and after a remove that returned no slot holds a
\* released bucket.
MergeJoinsDistinctBuddies ==
    /\ \A e \in Steps("merge") :
          LET kept == e.at[1]
              gone == e.at[2]
          IN  kept # gone /\ gone \notin Held(e.after)
    /\ \A key \in CallKeys : \A r \in remove(Table, key) :
          pc = "loop" /\ fault = NoFault /\ Referenced \subseteq live
                /\ r.fault = NoFault
             => Held(r) \subseteq r.live

AccessesInBounds ==
    pc = "loop" /\ fault = NoFault =>
        \A key \in CallKeys :
            LET bucketIndex == getBucketIndex(key, globalDepth)
            IN  /\ bucketIndex \in DOMAIN buckets
                /\ globalDepth - 1 >= 0
                /\ getImageIndex(Table, bucketIndex) \subseteq DOMAIN buckets

\* C19: an extend step adds one to globalDepth and doubles the directory;
\* slot i of the new directory references what slot i mod 2^oldDepth
\* referenced, and no bucket is changed, created or released.
ExtendMirrors ==
    \A e \in Steps("extend") :
        LET oldDepth == e.before.globalDepth
        IN  /\ e.after.globalDepth = oldDepth + 1
            /\ DirSize(e.after) = 2 * DirSize(e.before)
            /\ \A i \in DOMAIN e.after.buckets :
                  e.after.buckets[i] = e.before.buckets[i % (2 ^ oldDepth)]
            /\ e.after.heap = e.before.heap
            /\ e.after.live = e.before.live

\* C19, witness: an add in the current state extends a directory of at least
\* two slots
ExtendHappens == \E e \in Steps("extend") : e.before.globalDepth >= 1

\* the number of steps of a kind in the trail of one call
Count(r, kind) == Cardinality({i \in DOMAIN r.trail : r.trail[i].kind = kind})

\* C20: one remove call makes at most one merge and at most one shrink: the
\* number of distinct buckets referenced falls by at most one, and so does
\* globalDepth.
RemoveDoesNotCascade ==
    pc = "loop" /\ fault = NoFault =>
        \A key \in CallKeys : \A r \in remove(Table, key) :
            r.fault = NoFault =>
                /\ Count(r, "merge") <= 1
                /\ Count(r, "shrink") <= 1
                /\ Cardinality(Held(r)) >= Cardinality(Referenced) - 1
                /\ r.globalDepth >= globalDepth - 1

\* two different buckets of w that line 290 would merge: both at most half
\* full and of the same local depth
MergeEligible(w) ==
    \E p, q \in Held(w) :
        /\ p # q
        /\ w.heap[p].localDepth = w.heap[q].localDepth
        /\ HalfEmpty(Cardinality(w.heap[p].data), w.bucketSize)
        /\ HalfEmpty(Cardinality(w.heap[q].data), w.bucketSize)

\* C20, witness: a remove in the current state merges and shrinks, and
\* leaves two buckets that could be merged again
RemoveStopsShort ==
    /\ pc = "loop" /\ fault = NoFault /\ Referenced \subseteq live
    /\ \E key \in Keys : \E r \in remove(Table, key) :
          /\ r.fault = NoFault
          /\ ~r.tainted
          /\ Count(r, "merge") = 1
          /\ Count(r, "shrink") = 1
          /\ MergeEligible(r)

=============================================================================
